---- MODULE Spec2Model ----
(***************************************************************************)
(* Model of the leave / attendance request service of                      *)
(* src/my-app/app/main.py: the JSON store (load_data / save_data), the      *)
(* request handlers of RequestHandler and the HTTPServer loop of run().     *)
(*                                                                         *)
(* A date text "YYYY-MM-DD" is the tuple <<y, m, d>>; the empty tuple is    *)
(* an absent or empty field.  A record id f"{prefix}-{now}" is the tuple    *)
(* <<prefix, now>>.  JSON null / Python None is the string None.            *)
(***************************************************************************)
EXTENDS Integers, Sequences, FiniteSets, TLC

VARIABLES fileState, fileDoc, clock, pc, req, data, resp, overlap, prior

vars == <<fileState, fileDoc, clock, pc, req, data, resp, overlap, prior>>

\* ------------------------------------------------------------------ bounds
\* Most records (leave requests plus attendance corrections) the clients create.
MaxRecords == 2

Clients == {"c1", "c2"}

None == "None"
NoDate == <<>>

\* ------------------------------------------------------------- seed dataset
SeedUsers ==
  << [id |-> "e001", name |-> "Alice Tanaka", role |-> "employee",
      department |-> "Sales", manager_id |-> "m001", annual_leave_allowance |-> 20],
     [id |-> "e002", name |-> "Bob Suzuki", role |-> "employee",
      department |-> "Engineering", manager_id |-> "m002", annual_leave_allowance |-> 18],
     [id |-> "m001", name |-> "Mika Yamada", role |-> "manager",
      department |-> "Sales", manager_id |-> "a001", annual_leave_allowance |-> 22],
     [id |-> "m002", name |-> "Ryo Watanabe", role |-> "manager",
      department |-> "Engineering", manager_id |-> "a001", annual_leave_allowance |-> 22],
     [id |-> "a001", name |-> "Admin Ito", role |-> "admin",
      department |-> "HQ", manager_id |-> None, annual_leave_allowance |-> 25] >>

SEED ==
  [users |-> SeedUsers,
   leave_types |-> <<"Paid", "Sick", "Half-day", "Special">>,
   work_calendar |-> [holidays |-> << <<2025, 1, 1>>, <<2025, 2, 11>>,
                                      <<2025, 4, 29>>, <<2025, 5, 3>> >>],
   approval_routes |-> << [department |-> "Sales", manager_id |-> "m001"],
                          [department |-> "Engineering", manager_id |-> "m002"] >>,
   leave_requests |-> <<>>,
   attendance_corrections |-> <<>>]

\* ------------------------------------------------------------------- store
\* load_data: a missing file, or one whose text json.loads rejects, is rewritten
\* with the seed and the seed is returned; otherwise the parsed document is
\* returned.  Only json.JSONDecodeError is caught: a file whose bytes are not
\* UTF-8 (state "undecodable", e.g. a write cut inside a multi-byte character)
\* makes read_text raise UnicodeDecodeError, which leaves load_data with the
\* file as it was.  The whole body runs under LOCK, so it is one step.
\* A load that returns the requests of the last save with the corrections of
\* the seed: a document no save was given.
load_data_torn(state, doc) ==
  IF state = "ok"
    THEN [data |-> [doc EXCEPT !.attendance_corrections = <<>>],
          state |-> "ok", doc |-> doc, raises |-> FALSE]
  ELSE IF state = "undecodable"
    THEN [data |-> SEED, state |-> state, doc |-> doc, raises |-> TRUE]
  ELSE [data |-> SEED, state |-> "ok", doc |-> SEED, raises |-> FALSE]

load_data(state, doc) ==
  IF state = "ok"
    THEN [data |-> doc, state |-> "ok", doc |-> doc, raises |-> FALSE]
  ELSE IF state = "undecodable"
    THEN [data |-> SEED, state |-> state, doc |-> doc, raises |-> TRUE]
  ELSE [data |-> SEED, state |-> "ok", doc |-> SEED, raises |-> FALSE]

\* save_data: the whole document is rewritten under LOCK.
save_data(d) == [state |-> "ok", doc |-> d]

\* -------------------------------------------------------------------- dates
IsLeap(y) == (y % 4 = 0) /\ ((y % 100 # 0) \/ (y % 400 = 0))

DaysInMonth(y, m) ==
  IF m = 2 THEN (IF IsLeap(y) THEN 29 ELSE 28)
  ELSE IF m \in {4, 6, 9, 11} THEN 30 ELSE 31

RECURSIVE DaysBeforeMonth(_, _)
DaysBeforeMonth(y, m) ==
  IF m <= 1 THEN 0 ELSE DaysBeforeMonth(y, m - 1) + DaysInMonth(y, m - 1)

DaysBeforeYear(y) ==
  (y - 1) * 365 + ((y - 1) \div 4) - ((y - 1) \div 100) + ((y - 1) \div 400)

\* strptime(value, "%Y-%m-%d") succeeds on a real calendar date only.
DateParses(v) ==
  /\ Len(v) = 3
  /\ v[1] \in 1..9999
  /\ v[2] \in 1..12
  /\ v[3] \in 1..DaysInMonth(v[1], v[2])

\* parse_date: the date, as its proleptic Gregorian ordinal (date.toordinal()).
parse_date(v) == DaysBeforeYear(v[1]) + DaysBeforeMonth(v[1], v[2]) + v[3]

\* -------------------------------------------------------------------- users
NoUser ==
  [id |-> None, name |-> None, role |-> None, department |-> None,
   manager_id |-> None, annual_leave_allowance |-> 0]

\* user_lookup(data).get(uid): the last user of the list with that id, or None.
user_lookup(d, uid) ==
  LET us == d.users
      hits == {i \in 1..Len(us) : us[i].id = uid}
  IN IF hits = {} THEN NoUser
     ELSE us[CHOOSE i \in hits : \A j \in hits : j <= i]

\* ---------------------------------------------------------------- responses
\* respond_json(status, {"ok": ..., "message": ..., <payload>}).
Response(status, message, payload) ==
  [status |-> status, message |-> message, payload |-> payload]

NoResp == Response(0, "", <<>>)

\* handle_error: any exception escaping a handler.
handle_error == Response(500, "Internal server error. Please retry.", <<>>)

\* What a handler leaves behind: its response and, when it called save_data,
\* the document it saved.
Result(r, saved, d) == [resp |-> r, saved |-> saved, doc |-> d]

\* A refusal that writes the seed back to the store.
RefusedAfterReset(r, d) == Result(r, TRUE, SEED)

Refused(r, d) == Result(r, FALSE, d)

\* The error taxonomy of a response.
Kind(r) ==
  CASE r.status = 200 -> "ok"
    [] r.status = 401 /\ r.message = "Missing X-User-Id" -> "Unauthenticated"
    [] r.status = 401 -> "Unauthorized"
    [] r.status = 403 /\ r.message \in {"Unknown user", "Role mismatch for this user"}
         -> "Unauthorized"
    [] r.status = 403 -> "Forbidden"
    [] r.status = 400 -> "ValidationError"
    [] r.status = 404 -> "NotFound"
    [] r.status = 500 -> "Internal"
    [] OTHER -> "none"

\* ------------------------------------------------- identity and authorization
\* Python truthiness of a header or string field.
Falsy(v) == v \in {None, ""}

\* A resolver that does not compare the asserted role.
require_user_any_role(d, r) ==
  LET user == user_lookup(d, r.uid) IN
  IF Falsy(r.uid)
    THEN [ok |-> FALSE, user |-> NoUser,
          resp |-> Response(401, "Missing X-User-Id", <<>>)]
  ELSE IF user = NoUser
    THEN [ok |-> FALSE, user |-> NoUser,
          resp |-> Response(403, "Unknown user", <<>>)]
  ELSE [ok |-> TRUE, user |-> user, resp |-> NoResp]

require_user(d, r) ==
  LET user == user_lookup(d, r.uid) IN
  IF Falsy(r.uid)
    THEN [ok |-> FALSE, user |-> NoUser,
          resp |-> Response(401, "Missing X-User-Id", <<>>)]
  ELSE IF user = NoUser
    THEN [ok |-> FALSE, user |-> NoUser,
          resp |-> Response(403, "Unknown user", <<>>)]
  ELSE IF ~Falsy(r.role) /\ user.role # r.role
    THEN [ok |-> FALSE, user |-> NoUser,
          resp |-> Response(403, "Role mismatch for this user", <<>>)]
  ELSE [ok |-> TRUE, user |-> user, resp |-> NoResp]

\* A team test that lets every actor through.
in_team_any(manager, target_user) == TRUE

\* A team test that also lets a manager through for the manager's own record.
in_team_or_self(manager, target_user) ==
  IF manager.role = "admin" THEN TRUE
  ELSE target_user.manager_id = manager.id \/ target_user.id = manager.id

in_team(manager, target_user) ==
  IF manager.role = "admin" THEN TRUE
  ELSE target_user.manager_id = manager.id

guard_role(user, allowed) == user.role \in allowed

ForbiddenRole == Response(403, "Forbidden for this role", <<>>)

\* ------------------------------------------------------------------ buckets
Bucket(d, category) ==
  IF category = "leave" THEN d.leave_requests ELSE d.attendance_corrections

WithBucket(d, category, items) ==
  IF category = "leave" THEN [d EXCEPT !.leave_requests = items]
  ELSE [d EXCEPT !.attendance_corrections = items]

\* next((r for r in items if r["id"] == target_id), None): the index of the
\* first record with that id, 0 when there is none.
FirstWithId(items, id) ==
  LET hits == {i \in 1..Len(items) : items[i].id = id}
  IN IF hits = {} THEN 0 ELSE CHOOSE i \in hits : \A j \in hits : i <= j

generate_id(prefix, now) == <<prefix, now>>

\* ------------------------------------------------------------- create leave
MissingLeaveFields(b) ==
  SelectSeq(<<"start_date", "end_date", "leave_type", "reason">>,
            LAMBDA f : CASE f = "start_date" -> b.start_date = NoDate
                         [] f = "end_date" -> b.end_date = NoDate
                         [] f = "leave_type" -> Falsy(b.leave_type)
                         [] OTHER -> Falsy(b.reason))

\* The span without its last day.
LeaveDaysExclusive(b) == parse_date(b.end_date) - parse_date(b.start_date)

LeaveDays(b) == (parse_date(b.end_date) - parse_date(b.start_date)) + 1

\* A record whose owner and decision fields are taken from the payload.
LeaveItemFromPayload(user, b, now) ==
  [id |-> generate_id("lv", now),
   user_id |-> b.user_id,
   employee_name |-> b.employee_name,
   department |-> b.department,
   leave_type |-> b.leave_type,
   start_date |-> b.start_date,
   end_date |-> b.end_date,
   days |-> LeaveDays(b),
   reason |-> b.reason,
   status |-> b.status,
   approver_comment |-> b.approver_comment,
   approved_by |-> b.approved_by,
   created_at |-> now]

LeaveItem(user, b, now) ==
  [id |-> generate_id("lv", now),
   user_id |-> user.id,
   employee_name |-> user.name,
   department |-> user.department,
   leave_type |-> b.leave_type,
   start_date |-> b.start_date,
   end_date |-> b.end_date,
   days |-> LeaveDays(b),
   reason |-> b.reason,
   status |-> "pending",
   approver_comment |-> "",
   approved_by |-> "",
   created_at |-> now]

create_leave(d, r, now) ==
  LET auth == require_user(d, r)
      b == r.body
      missing == MissingLeaveFields(b)
      item == LeaveItem(auth.user, b, now)
      saved == [d EXCEPT !.leave_requests = Append(@, item)]
  IN IF ~auth.ok THEN Refused(auth.resp, d)
     ELSE IF missing # <<>>
       THEN Refused(Response(400, "Missing fields", missing), d)
     ELSE IF ~DateParses(b.start_date) \/ ~DateParses(b.end_date)
       THEN Refused(handle_error, d)
     ELSE IF parse_date(b.end_date) < parse_date(b.start_date)
       THEN Refused(Response(400, "End date must be on/after start date", <<>>), d)
     ELSE Result(Response(200, "", item), TRUE, saved)

\* -------------------------------------------------------- create correction
MissingCorrectionFields(b) ==
  SelectSeq(<<"date", "clock_in", "clock_out", "reason">>,
            LAMBDA f : CASE f = "date" -> b.date = NoDate
                         [] f = "clock_in" -> Falsy(b.clock_in)
                         [] f = "clock_out" -> Falsy(b.clock_out)
                         [] OTHER -> Falsy(b.reason))

\* body.get(key, 0): 0 only when the key is absent (NoNumber here).
NoNumber == 0 - 1

GetOrZero(v) == IF v = NoNumber THEN 0 ELSE v

CorrectionItem(user, b, now) ==
  [id |-> generate_id("ac", now),
   user_id |-> user.id,
   employee_name |-> user.name,
   department |-> user.department,
   date |-> b.date,
   clock_in |-> b.clock_in,
   clock_out |-> b.clock_out,
   break_minutes |-> GetOrZero(b.break_minutes),
   overtime_hours |-> GetOrZero(b.overtime_hours),
   reason |-> b.reason,
   status |-> "pending",
   approver_comment |-> "",
   approved_by |-> "",
   created_at |-> now]

create_correction(d, r, now) ==
  LET auth == require_user(d, r)
      b == r.body
      missing == MissingCorrectionFields(b)
      item == CorrectionItem(auth.user, b, now)
      saved == [d EXCEPT !.attendance_corrections = Append(@, item)]
  IN IF ~auth.ok THEN Refused(auth.resp, d)
     ELSE IF missing # <<>>
       THEN Refused(Response(400, "Missing fields", missing), d)
     ELSE Result(Response(200, "", item), TRUE, saved)

\* ----------------------------------------------------------- approve / reject
\* JSON arrays and objects, written as their JSON text: Python lists and dicts,
\* which a set-membership test cannot hash.
UnhashableValues == {"[\"leave\"]", "{}"}

\* The checks api_approve makes on the body before it loads the store.
\* `x not in {...}` raises TypeError for an unhashable x, and do_POST answers
\* with handle_error.
approve_precheck(r) ==
  IF r.body.category \in UnhashableValues THEN handle_error
  ELSE IF r.body.category \notin {"leave", "correction"}
    THEN Response(400, "Invalid category", <<>>)
  ELSE IF r.body.action \in UnhashableValues THEN handle_error
  ELSE IF r.body.action \notin {"approved", "rejected"}
    THEN Response(400, "Invalid action", <<>>)
  ELSE NoResp

\* An approve that accepts a decision only for a pending record.
approve_once(d, r) ==
  LET auth == require_user(d, r)
      user == auth.user
      b == r.body
      items == Bucket(d, b.category)
      i == FirstWithId(items, b.id)
      owner == user_lookup(d, items[i].user_id)
      target == [items[i] EXCEPT !.status = b.action,
                                 !.approver_comment = b.comment,
                                 !.approved_by = user.name]
      saved == WithBucket(d, b.category, [items EXCEPT ![i] = target])
  IN IF ~auth.ok THEN Refused(auth.resp, d)
     ELSE IF ~guard_role(user, {"manager", "admin"}) THEN Refused(ForbiddenRole, d)
     ELSE IF i = 0 THEN Refused(Response(404, "Request not found", <<>>), d)
     ELSE IF owner = NoUser /\ user.role # "admin" THEN Refused(handle_error, d)
     ELSE IF ~in_team(user, owner)
       THEN Refused(Response(403, "Cannot approve outside your team", <<>>), d)
     ELSE IF items[i].status # "pending"
       THEN Refused(Response(409, "Already decided", <<>>), d)
     ELSE Result(Response(200, "", target), TRUE, saved)

approve(d, r) ==
  LET auth == require_user(d, r)
      user == auth.user
      b == r.body
      items == Bucket(d, b.category)
      i == FirstWithId(items, b.id)
      owner == user_lookup(d, items[i].user_id)
      target == [items[i] EXCEPT !.status = b.action,
                                 !.approver_comment = b.comment,
                                 !.approved_by = user.name]
      saved == WithBucket(d, b.category, [items EXCEPT ![i] = target])
  IN IF ~auth.ok THEN Refused(auth.resp, d)
     ELSE IF ~guard_role(user, {"manager", "admin"}) THEN Refused(ForbiddenRole, d)
     ELSE IF i = 0 THEN Refused(Response(404, "Request not found", <<>>), d)
     \* in_team(user, None) raises for every actor but an admin
     ELSE IF owner = NoUser /\ user.role # "admin" THEN Refused(handle_error, d)
     ELSE IF ~in_team(user, owner)
       THEN Refused(Response(403, "Cannot approve outside your team", <<>>), d)
     ELSE Result(Response(200, "", target), TRUE, saved)

\* ----------------------------------------------------------- meta and login
\* api_meta: the users and settings of the loaded document, for any caller.
meta(d, r) ==
  Refused(Response(200, "", [users |-> d.users, leave_types |-> d.leave_types,
                             work_calendar |-> d.work_calendar,
                             approval_routes |-> d.approval_routes]), d)

\* api_login: users.get(user_id) raises TypeError for an unhashable user_id.
login(d, r) ==
  LET user == user_lookup(d, r.body.user_id) IN
  IF r.body.user_id \in UnhashableValues THEN Refused(handle_error, d)
  ELSE IF user = NoUser THEN Refused(Response(401, "User not found", <<>>), d)
  ELSE Refused(Response(200, "", user), d)

\* --------------------------------------------------------------------- list
\* query.get("scope", ["mine"])[0]
ScopeOf(b) == IF b.scope = None THEN "mine" ELSE b.scope

\* A manager shown the team view whatever scope is asked for.
VisibilityAlwaysTeam(user, scope) ==
  IF user.role = "admin" THEN "all"
  ELSE IF user.role = "manager" THEN "team"
  ELSE "own"

\* An employee shown every record when the team scope is asked for.
VisibilityByScopeOnly(user, scope) ==
  IF user.role = "admin" THEN "all"
  ELSE IF scope = "team" THEN (IF user.role = "manager" THEN "team" ELSE "all")
  ELSE "own"

\* Which of the three filters of api_list_requests applies.
Visibility(user, scope) ==
  IF user.role = "admin" THEN "all"
  ELSE IF user.role = "manager"
    THEN (IF scope = "team" THEN "team" ELSE "own")
  ELSE "own"

list_requests(d, r) ==
  LET auth == require_user(d, r)
      user == auth.user
      items == Bucket(d, r.body.category)
      Own(x) == x.user_id = user.id
      Team(x) == in_team(user, user_lookup(d, x.user_id)) \/ x.user_id = user.id
      view == Visibility(user, ScopeOf(r.body))
      filtered ==
        CASE view = "all" -> items
          [] view = "team" -> SelectSeq(items, Team)
          [] OTHER -> SelectSeq(items, Own)
  IN IF ~auth.ok THEN Refused(auth.resp, d)
     ELSE Refused(Response(200, "", filtered), d)

\* ----------------------------------------------------------- update settings
Absent == [present |-> FALSE, value |-> <<>>]

Given(v) == [present |-> TRUE, value |-> v]

\* An update that empties the settings the request does not supply.
settings_update_all(d, r) ==
  LET auth == require_user(d, r)
      b == r.body
      d3 == [d EXCEPT !.leave_types = SelectSeq(b.leave_types.value, LAMBDA x : ~Falsy(x)),
                      !.work_calendar.holidays =
                         SelectSeq(b.holidays.value, LAMBDA x : x # NoDate),
                      !.approval_routes = b.approval_routes.value]
  IN IF ~auth.ok THEN Refused(auth.resp, d)
     ELSE IF ~guard_role(auth.user, {"admin"}) THEN Refused(ForbiddenRole, d)
     ELSE Result(Response(200, "", d3), TRUE, d3)

settings_update(d, r) ==
  LET auth == require_user(d, r)
      b == r.body
      d1 == IF b.leave_types.present
              THEN [d EXCEPT !.leave_types =
                      SelectSeq(b.leave_types.value, LAMBDA x : ~Falsy(x))]
              ELSE d
      d2 == IF b.holidays.present
              THEN [d1 EXCEPT !.work_calendar.holidays =
                      SelectSeq(b.holidays.value, LAMBDA x : x # NoDate)]
              ELSE d1
      d3 == IF b.approval_routes.present
              THEN [d2 EXCEPT !.approval_routes = b.approval_routes.value]
              ELSE d2
  IN IF ~auth.ok THEN Refused(auth.resp, d)
     ELSE IF ~guard_role(auth.user, {"admin"}) THEN Refused(ForbiddenRole, d)
     ELSE Result(Response(200, "", d3), TRUE, d3)

\* ------------------------------------------------------------------ reports
\* item.get("start_date", item.get("date")) and item.get("end_date", item.get("date"))
ItemStart(x, category) == IF category = "leave" THEN x.start_date ELSE x.date

ItemEnd(x, category) == IF category = "leave" THEN x.end_date ELSE x.date

\* A query value that is given: query.get(key, [""])[0] is not empty.
GivenText(v) == ~Falsy(v)

GivenDate(v) == v # NoDate

\* The department and employee tests shared by match_filters and match.
OwnerMatches(d, q, x) ==
  LET owner == user_lookup(d, x.user_id) IN
  /\ ~(GivenText(q.department) /\ owner # NoUser /\ owner.department # q.department)
  /\ ~(GivenText(q.employee) /\ x.user_id # q.employee)

\* match_filters of api_reports raises when it parses a stored date that is no
\* date; it parses the start only when a start filter is given and the owner
\* tests passed, and the end only when the start test passed too.
match_filters_raises(d, q, x, category) ==
  /\ OwnerMatches(d, q, x)
  /\ \/ GivenDate(q.start) /\ ~DateParses(ItemStart(x, category))
     \/ /\ GivenDate(q.end)
        /\ ~(GivenDate(q.start) /\ parse_date(ItemStart(x, category)) < parse_date(q.start))
        /\ ~DateParses(ItemEnd(x, category))

\* A containment test that ignores the end of the window.
match_filters_from_start(d, q, x, category) ==
  /\ OwnerMatches(d, q, x)
  /\ ~(GivenDate(q.start) /\ parse_date(ItemStart(x, category)) < parse_date(q.start))

match_filters(d, q, x, category) ==
  /\ OwnerMatches(d, q, x)
  /\ ~(GivenDate(q.start) /\ parse_date(ItemStart(x, category)) < parse_date(q.start))
  /\ ~(GivenDate(q.end) /\ parse_date(ItemEnd(x, category)) > parse_date(q.end))

ApprovedMatching(d, q, category) ==
  SelectSeq(Bucket(d, category),
            LAMBDA x : x.status = "approved" /\ match_filters(d, q, x, category))

RECURSIVE SumDays(_)
SumDays(items) ==
  IF items = <<>> THEN 0 ELSE Head(items).days + SumDays(Tail(items))

\* The keys of leave_summary in insertion order: the positions of leave_items
\* where a user_id appears first.
FirstPositions(items) ==
  {i \in 1..Len(items) : \A j \in 1..(i - 1) : items[j].user_id # items[i].user_id}

Max(a, b) == IF a >= b THEN a ELSE b

\* A remaining balance that is not floored at zero.
remaining_unfloored(allowance, days_taken) == allowance - days_taken

remaining(allowance, days_taken) == Max(allowance - days_taken, 0)

report_row(d, leave_items, uid) ==
  LET u == user_lookup(d, uid)
      days_taken == SumDays(SelectSeq(leave_items, LAMBDA x : x.user_id = uid))
  IN [employee_id |-> uid,
      employee_name |-> IF u = NoUser THEN "" ELSE u.name,
      department |-> IF u = NoUser THEN "" ELSE u.department,
      leave_days_taken |-> days_taken,
      leave_days_remaining |-> remaining(u.annual_leave_allowance, days_taken)]

report_rows(d, leave_items) ==
  LET firsts == FirstPositions(leave_items)
      Nth(k) == CHOOSE i \in firsts : Cardinality({j \in firsts : j <= i}) = k
  IN [k \in 1..Cardinality(firsts) |-> report_row(d, leave_items, leave_items[Nth(k)].user_id)]

\* parse_date(start) / parse_date(end) of a given filter raises.
FilterRaises(q) ==
  \/ GivenDate(q.start) /\ ~DateParses(q.start)
  \/ GivenDate(q.end) /\ ~DateParses(q.end)

\* A summary that counts, for a manager, only the leave of the own team.
reports_team_scoped(d, r) ==
  LET auth == require_user(d, r)
      q == r.body
      raises ==
        \/ FilterRaises(q)
        \/ \E category \in {"leave", "correction"} :
             \E i \in 1..Len(Bucket(d, category)) :
               /\ Bucket(d, category)[i].status = "approved"
               /\ match_filters_raises(d, q, Bucket(d, category)[i], category)
      leave_items ==
        SelectSeq(ApprovedMatching(d, q, "leave"),
                  LAMBDA x : in_team(auth.user, user_lookup(d, x.user_id)))
      corr_items == ApprovedMatching(d, q, "correction")
      report == [leave_totals |-> report_rows(d, leave_items),
                 correction_count |-> Len(corr_items),
                 filters |-> q]
  IN IF ~auth.ok THEN Refused(auth.resp, d)
     ELSE IF ~guard_role(auth.user, {"manager", "admin"}) THEN Refused(ForbiddenRole, d)
     ELSE IF raises THEN Refused(handle_error, d)
     ELSE Refused(Response(200, "", report), d)

reports(d, r) ==
  LET auth == require_user(d, r)
      q == r.body
      raises ==
        \/ FilterRaises(q)
        \/ \E category \in {"leave", "correction"} :
             \E i \in 1..Len(Bucket(d, category)) :
               /\ Bucket(d, category)[i].status = "approved"
               /\ match_filters_raises(d, q, Bucket(d, category)[i], category)
      leave_items == ApprovedMatching(d, q, "leave")
      corr_items == ApprovedMatching(d, q, "correction")
      report == [leave_totals |-> report_rows(d, leave_items),
                 correction_count |-> Len(corr_items),
                 filters |-> q]
  IN IF ~auth.ok THEN Refused(auth.resp, d)
     ELSE IF ~guard_role(auth.user, {"manager", "admin"}) THEN Refused(ForbiddenRole, d)
     ELSE IF raises THEN Refused(handle_error, d)
     ELSE Refused(Response(200, "", report), d)

\* match of api_reports_export parses both dates of every record that passed
\* the owner tests, whether or not a window is given.
match_raises(d, q, x, category) ==
  /\ OwnerMatches(d, q, x)
  /\ ~DateParses(ItemStart(x, category)) \/ ~DateParses(ItemEnd(x, category))

match(d, q, x, category) ==
  /\ OwnerMatches(d, q, x)
  /\ ~(GivenDate(q.start) /\ parse_date(ItemEnd(x, category)) < parse_date(q.start))
  /\ ~(GivenDate(q.end) /\ parse_date(ItemStart(x, category)) > parse_date(q.end))

leave_row(x) ==
  [category |-> "leave", employee_id |-> x.user_id, employee_name |-> x.employee_name,
   department |-> x.department, status |-> x.status, start_date |-> x.start_date,
   end_date |-> x.end_date, days |-> x.days, leave_type |-> x.leave_type,
   reason |-> x.reason, approver_comment |-> x.approver_comment,
   approved_by |-> x.approved_by, created_at |-> x.created_at]

correction_row(x) ==
  [category |-> "attendance_correction", employee_id |-> x.user_id,
   employee_name |-> x.employee_name, department |-> x.department,
   status |-> x.status, start_date |-> x.date, end_date |-> x.date, days |-> 0,
   leave_type |-> "", reason |-> x.reason, approver_comment |-> x.approver_comment,
   approved_by |-> x.approved_by, created_at |-> x.created_at]

RowsOf(items, category) ==
  [i \in 1..Len(items) |->
     IF category = "leave" THEN leave_row(items[i]) ELSE correction_row(items[i])]

\* The rows csv.DictWriter writes under the header line, in order.
reports_export(d, r) ==
  LET auth == require_user(d, r)
      q == r.body
      raises ==
        \/ FilterRaises(q)
        \/ \E category \in {"leave", "correction"} :
             \E i \in 1..Len(Bucket(d, category)) :
               match_raises(d, q, Bucket(d, category)[i], category)
      leaves == SelectSeq(d.leave_requests, LAMBDA x : match(d, q, x, "leave"))
      corrs == SelectSeq(d.attendance_corrections, LAMBDA x : match(d, q, x, "correction"))
      rows == RowsOf(leaves, "leave") \o RowsOf(corrs, "correction")
  IN IF ~auth.ok THEN Refused(auth.resp, d)
     ELSE IF ~guard_role(auth.user, {"manager", "admin"}) THEN Refused(ForbiddenRole, d)
     ELSE IF raises THEN Refused(handle_error, d)
     ELSE Refused(Response(200, "", rows), d)

\* ------------------------------------------------------------------- server
NoReq == [op |-> "none", uid |-> None, role |-> None, body |-> <<>>]

Request(op, uid, role, body) == [op |-> op, uid |-> uid, role |-> role, body |-> body]

Init ==
  /\ fileState \in {"missing", "corrupt", "undecodable"}
  /\ fileDoc = SEED
  /\ clock = 0
  /\ pc = [c \in Clients |-> "idle"]
  /\ req = [c \in Clients |-> NoReq]
  /\ data = [c \in Clients |-> SEED]
  /\ resp = [c \in Clients |-> NoResp]
  /\ overlap = [c \in Clients |-> {}]
  /\ prior = [c \in Clients |-> "none"]

Outstanding(c) == pc[c] \in {"queued", "loaded"}

\* The document a client can have seen: what is persisted (the seed before the
\* first load).
Visible == load_data(fileState, fileDoc).data

StoredCount(d) == Len(d.leave_requests) + Len(d.attendance_corrections)

CreatesOutstanding ==
  Cardinality({c \in Clients :
                 Outstanding(c) /\ req[c].op \in {"create_leave", "create_correction"}})

\* A client opens a connection and sends a request; it waits in the listen
\* queue of the server socket until the server accepts it.
Send(c, r) ==
  /\ pc[c] \in {"idle", "done"}
  /\ r.op \in {"create_leave", "create_correction"}
       => StoredCount(Visible) + CreatesOutstanding < MaxRecords
  /\ pc' = [pc EXCEPT ![c] = "queued"]
  /\ req' = [req EXCEPT ![c] = r]
  /\ resp' = [resp EXCEPT ![c] = NoResp]
  /\ overlap' = [x \in Clients |->
                   IF x = c THEN {y \in Clients \ {c} : Outstanding(y)}
                   ELSE IF Outstanding(x) THEN overlap[x] \cup {c}
                   ELSE overlap[x] \ {c}]
  /\ prior' = [prior EXCEPT ![c] = "none"]
  /\ UNCHANGED <<fileState, fileDoc, clock, data>>

\* A threading server (ThreadingHTTPServer) would accept at once.
ServerFreeThreaded(c) == TRUE

\* run(): HTTPServer.serve_forever handles one request to its end before it
\* accepts the next one.
ServerFree(c) == \A d \in Clients \ {c} : pc[d] # "loaded"

\* api_approve refuses a bad category or action before it loads the store.
api_approve_invalid(c) ==
  /\ pc[c] = "queued"
  /\ ServerFree(c)
  /\ req[c].op = "approve"
  /\ approve_precheck(req[c]) # NoResp
  /\ pc' = [pc EXCEPT ![c] = "done"]
  /\ resp' = [resp EXCEPT ![c] = approve_precheck(req[c])]
  /\ UNCHANGED <<fileState, fileDoc, clock, req, data, overlap, prior>>

\* The first store access of a handler: data = load_data().  An exception out
\* of load_data ends the handler in handle_error.
Load(c) ==
  /\ pc[c] = "queued"
  /\ ServerFree(c)
  /\ req[c].op = "approve" => approve_precheck(req[c]) = NoResp
  /\ LET l == load_data(fileState, fileDoc) IN
       /\ fileState' = l.state
       /\ fileDoc' = l.doc
       /\ IF l.raises
            THEN /\ pc' = [pc EXCEPT ![c] = "done"]
                 /\ resp' = [resp EXCEPT ![c] = handle_error]
                 /\ UNCHANGED data
            ELSE /\ pc' = [pc EXCEPT ![c] = "loaded"]
                 /\ data' = [data EXCEPT ![c] = l.data]
                 /\ UNCHANGED resp
  /\ UNCHANGED <<clock, req, overlap, prior>>

\* The status that the record an approve call resolves to has in the loaded
\* document; "none" for any other call and for an id that resolves to nothing.
PriorStatus(c) ==
  LET items == Bucket(data[c], req[c].body.category)
      i == FirstWithId(items, req[c].body.id)
  IN IF req[c].op # "approve" THEN "none"
     ELSE IF i = 0 THEN "none"
     ELSE items[i].status

\* The rest of a handler, from the loaded document to the response.  prior
\* records what the handler found, for the history of the record.
Finish(c, res) ==
  /\ pc' = [pc EXCEPT ![c] = "done"]
  /\ resp' = [resp EXCEPT ![c] = res.resp]
  /\ data' = [data EXCEPT ![c] = SEED]
  /\ IF res.saved
       THEN /\ fileState' = save_data(res.doc).state
            /\ fileDoc' = save_data(res.doc).doc
       ELSE UNCHANGED <<fileState, fileDoc>>
  /\ prior' = [prior EXCEPT ![c] = PriorStatus(c)]
  /\ UNCHANGED <<req, overlap>>

\* The clock readings of one handler: utcnow() is the last reading or later.
Readings == {t \in {clock, clock + 1} : t <= MaxRecords}

api_create_leave(c) ==
  /\ pc[c] = "loaded"
  /\ req[c].op = "create_leave"
  /\ \E now \in Readings :
       LET res == create_leave(data[c], req[c], now) IN
         /\ Finish(c, res)
         /\ clock' = IF res.saved THEN now ELSE clock

api_create_correction(c) ==
  /\ pc[c] = "loaded"
  /\ req[c].op = "create_correction"
  /\ \E now \in Readings :
       LET res == create_correction(data[c], req[c], now) IN
         /\ Finish(c, res)
         /\ clock' = IF res.saved THEN now ELSE clock

api_approve(c) ==
  /\ pc[c] = "loaded"
  /\ req[c].op = "approve"
  /\ Finish(c, approve(data[c], req[c]))
  /\ UNCHANGED clock
api_meta(c) ==
  /\ pc[c] = "loaded"
  /\ req[c].op = "meta"
  /\ Finish(c, meta(data[c], req[c]))
  /\ UNCHANGED clock

api_login(c) ==
  /\ pc[c] = "loaded"
  /\ req[c].op = "login"
  /\ Finish(c, login(data[c], req[c]))
  /\ UNCHANGED clock

api_list_requests(c) ==
  /\ pc[c] = "loaded"
  /\ req[c].op = "list"
  /\ Finish(c, list_requests(data[c], req[c]))
  /\ UNCHANGED clock

api_settings_update(c) ==
  /\ pc[c] = "loaded"
  /\ req[c].op = "settings"
  /\ Finish(c, settings_update(data[c], req[c]))
  /\ UNCHANGED clock

api_reports(c) ==
  /\ pc[c] = "loaded"
  /\ req[c].op = "reports"
  /\ Finish(c, reports(data[c], req[c]))
  /\ UNCHANGED clock

api_reports_export(c) ==
  /\ pc[c] = "loaded"
  /\ req[c].op = "export"
  /\ Finish(c, reports_export(data[c], req[c]))
  /\ UNCHANGED clock

\* ----------------------------------------------------------------- requests
LeaveBody(start, end, days) ==
  [start_date |-> start, end_date |-> end, leave_type |-> "Paid",
   reason |-> "trip", days |-> days]

CorrectionBody(date) ==
  [date |-> date, clock_in |-> "09:00", clock_out |-> "18:00",
   break_minutes |-> NoNumber, overtime_hours |-> 2, reason |-> "forgot"]

ApproveBody(category, id, action, comment) ==
  [category |-> category, id |-> id, action |-> action, comment |-> comment]

SettingsBody(types, holidays, routes) ==
  [leave_types |-> types, holidays |-> holidays, approval_routes |-> routes]

ListBody(category, scope) == [category |-> category, scope |-> scope]

LoginBody(user_id) == [user_id |-> user_id]

IdsIn(d, category) ==
  {Bucket(d, category)[i].id : i \in 1..Len(Bucket(d, category))}

\* ------------------------------------------- concurrent clients (SpecConc)
ConcRequests ==
  {Request("create_leave", "e001", None,
           LeaveBody(<<2025, 3, 1>>, <<2025, 3, 10>>, 0))}
  \cup {Request("create_correction", "e002", None, CorrectionBody(<<2025, 3, 5>>))}
  \cup UNION {{Request("approve", u, None, ApproveBody(cat, id, "approved", u)) :
                 u \in {"m001", "m002"}, id \in IdsIn(Visible, cat)} :
               cat \in {"leave", "correction"}}
  \cup {Request("settings", "a001", None,
                SettingsBody(Given(<<"Paid", "Sick", "", "Half-day", "Special">>),
                             Absent, Absent))}

NextConc ==
  \E c \in Clients :
    \/ \E r \in ConcRequests : Send(c, r)
    \/ Load(c)
    \/ api_create_leave(c)
    \/ api_create_correction(c)
    \/ api_approve(c)
    \/ api_settings_update(c)

SpecConc == Init /\ [][NextConc]_vars

\* ------------------------------------------------ approval workflow (Spec)
Client1 == "c1"

AbsentId == <<"lv", 0 - 1>>

PresentTargets ==
  {<<cat, id>> : cat \in {"leave", "correction"},
                 id \in IdsIn(Visible, "leave") \cup IdsIn(Visible, "correction")}

FlowApprovals ==
  {Request("approve", u, None, ApproveBody(t[1], t[2], a, u)) :
     u \in {"m001", "m002", "a001"},
     t \in {x \in PresentTargets : x[2] \in IdsIn(Visible, x[1])},
     a \in {"approved", "rejected"}}
  \cup {Request("approve", "e001", None, ApproveBody(t[1], t[2], "approved", "ok")) :
          t \in {x \in PresentTargets : x[2] \in IdsIn(Visible, x[1])}}
  \cup {Request("approve", u, None, ApproveBody("leave", AbsentId, "approved", "ok")) :
          u \in {"e001", "m001"}}

FlowRequests ==
  {Request("create_leave", u, None, LeaveBody(<<2025, 3, 1>>, <<2025, 3, 10>>, 0)) :
     u \in {"e001", "e002"}}
  \cup {Request("create_correction", "m001", None, CorrectionBody(<<2025, 3, 5>>))}
  \cup FlowApprovals
  \cup {Request("approve", "m001", None, ApproveBody("shift", AbsentId, "approved", "ok")),
        Request("approve", "m001", None, ApproveBody("leave", AbsentId, "cancel", "ok"))}

Next ==
  \/ \E r \in FlowRequests : Send(Client1, r)
  \/ Load(Client1)
  \/ api_approve_invalid(Client1)
  \/ api_create_leave(Client1)
  \/ api_create_correction(Client1)
  \/ api_approve(Client1)

Spec == Init /\ [][Next]_vars

\* ------------------------------------------------------ listing (SpecList)
ListRequests ==
  {Request("create_leave", u, None, LeaveBody(<<2025, 3, 1>>, <<2025, 3, 10>>, 0)) :
     u \in {"e001", "e002", "m001"}}
  \cup {Request("create_correction", u, None, CorrectionBody(<<2025, 3, 5>>)) :
          u \in {"e001", "e002", "m001"}}
  \cup {Request("list", u, None, ListBody(cat, scope)) :
          u \in {"e001", "e002", "m001", "m002", "a001"},
          cat \in {"leave", "correction"},
          scope \in {None, "mine", "team", "all"}}

NextList ==
  \/ \E r \in ListRequests : Send(Client1, r)
  \/ Load(Client1)
  \/ api_create_leave(Client1)
  \/ api_create_correction(Client1)
  \/ api_list_requests(Client1)

SpecList == Init /\ [][NextList]_vars

\* ------------------------------------------------ leave dates (SpecCreate)
\* Date texts sent as start_date / end_date: around a leap day and a year end,
\* one that is no calendar date, and an empty field.
DateInputs ==
  {<<2024, 2, 28>>, <<2024, 3, 1>>, <<2025, 1, 2>>, <<2025, 2, 30>>, NoDate}

CreateRequests ==
  {Request("create_leave", "e001", None, LeaveBody(s, e, n)) :
     s \in DateInputs, e \in DateInputs, n \in {NoNumber, 99}}

NextCreate ==
  \/ \E r \in CreateRequests : Send(Client1, r)
  \/ Load(Client1)
  \/ api_create_leave(Client1)

SpecCreate == Init /\ [][NextCreate]_vars

\* ------------------------------------------------------ reports (SpecReport)
ReportQuery(start, end, department, employee) ==
  [start |-> start, end |-> end, department |-> department, employee |-> employee]

Windows ==
  {<<NoDate, NoDate>>, <<<<2025, 3, 5>>, <<2025, 3, 8>>>>,
   <<<<2025, 3, 1>>, <<2025, 3, 10>>>>, <<<<2025, 3, 5>>, NoDate>>,
   <<NoDate, <<2025, 3, 8>>>>}

OwnerFilters == {<<"", "">>, <<"Sales", "">>, <<"", "e002">>}

ReportRequests ==
  {Request("create_leave", "e001", None, LeaveBody(<<2025, 3, 5>>, <<2025, 3, 8>>, 0)),
   Request("create_leave", "e002", None, LeaveBody(<<2025, 3, 1>>, <<2025, 3, 10>>, 0)),
   Request("create_correction", "e001", None, CorrectionBody(<<2025, 3, 5>>)),
   Request("create_correction", "e001", None, CorrectionBody(<<2025, 2, 30>>))}
  \cup {Request("approve", "a001", None, ApproveBody(t[1], t[2], a, "ok")) :
          t \in {x \in PresentTargets : x[2] \in IdsIn(Visible, x[1])},
          a \in {"approved", "rejected"}}
  \cup {Request(op, "m001", None, ReportQuery(w[1], w[2], "", "")) :
          op \in {"reports", "export"}, w \in Windows}
  \cup {Request(op, "m001", None,
                 ReportQuery(<<2025, 3, 5>>, <<2025, 3, 8>>, f[1], f[2])) :
          op \in {"reports", "export"}, f \in OwnerFilters}
  \cup {Request(op, u, None, ReportQuery(NoDate, NoDate, "", "")) :
          op \in {"reports", "export"}, u \in {"e001", "a001"}}

NextReport ==
  \/ \E r \in ReportRequests : Send(Client1, r)
  \/ Load(Client1)
  \/ api_create_leave(Client1)
  \/ api_create_correction(Client1)
  \/ api_approve(Client1)
  \/ api_reports(Client1)
  \/ api_reports_export(Client1)

SpecReport == Init /\ [][NextReport]_vars

\* ------------------------------------------------------ identity (SpecAuth)
\* Owner and decision fields a payload may carry besides the fields read.
Spoof ==
  [user_id |-> "a001", employee_name |-> "Admin Ito", department |-> "HQ",
   status |-> "approved", approver_comment |-> "self", approved_by |-> "Admin Ito"]

\* X-User-Id / X-User-Role pairs that require_user turns down: no header, an
\* empty header, an unknown id, and two roles that are not the user's.
FailingIdentities ==
  {<<None, None>>, <<"", "admin">>, <<"x999", None>>,
   <<"e001", "manager">>, <<"a001", "employee">>}

AuthBodies(op) ==
  CASE op = "create_leave" -> {LeaveBody(<<2025, 3, 1>>, <<2025, 3, 10>>, 0) @@ Spoof}
    [] op = "create_correction" -> {CorrectionBody(<<2025, 3, 5>>) @@ Spoof}
    [] op = "approve" -> {ApproveBody("leave", id, "approved", "ok") :
                            id \in IdsIn(Visible, "leave")}
    [] op = "list" -> {ListBody("leave", None)}
    [] op = "settings" ->
         {SettingsBody(Given(<<"Paid", "Sick", "", "Half-day", "Special">>),
                       Absent, Absent)}
    [] OTHER -> {ReportQuery(NoDate, NoDate, "", "")}

AuthOps ==
  {"create_leave", "create_correction", "approve", "list", "settings",
   "reports", "export"}

\* The identities each operation is also called with, all of them resolving.
ResolvingIdentities(op) ==
  CASE op = "create_leave" -> {<<"e001", "employee">>}
    [] op = "create_correction" -> {<<"m001", "">>}
    [] op = "approve" -> {<<"a001", "admin">>, <<"m001", "">>}
    [] op = "list" -> {<<"e001", "employee">>}
    [] op = "settings" -> {<<"a001", "admin">>}
    [] op = "reports" -> {<<"m001", "">>}
    [] OTHER -> {<<"a001", "admin">>}

\* Approvals with a category or action outside the accepted values (another
\* text, a missing key, a JSON array), from callers of every kind, and
\* approvals of an id that its category's bucket does not hold.
ApproveEdgeRequests ==
  {Request("approve", i[1], i[2], ApproveBody(b[1], id, b[2], "ok")) :
     i \in {<<None, None>>, <<"e001", "manager">>, <<"e001", None>>, <<"a001", "admin">>},
     b \in {<<"shift", "approved">>, <<None, "approved">>, <<"leave", "cancel">>,
            <<"leave", None>>, <<"[\"leave\"]", "approved">>},
     id \in {AbsentId} \cup IdsIn(Visible, "leave")}
  \cup {Request("approve", u, None, ApproveBody("leave", AbsentId, "rejected", "ok")) :
          u \in {"m001", "a001"}}
  \cup {Request("approve", u, None, ApproveBody("correction", id, "rejected", "ok")) :
          u \in {"m001", "a001"},
          id \in {AbsentId} \cup (IdsIn(Visible, "leave") \ IdsIn(Visible, "correction"))}

AuthRequests ==
  UNION {{Request(op, i[1], i[2], b) :
            i \in FailingIdentities \cup ResolvingIdentities(op), b \in AuthBodies(op)} :
          op \in AuthOps}
  \cup ApproveEdgeRequests

NextAuth ==
  \/ \E r \in AuthRequests : Send(Client1, r)
  \/ Load(Client1)
  \/ api_approve_invalid(Client1)
  \/ api_create_leave(Client1)
  \/ api_create_correction(Client1)
  \/ api_approve(Client1)
  \/ api_list_requests(Client1)
  \/ api_settings_update(Client1)
  \/ api_reports(Client1)
  \/ api_reports_export(Client1)

SpecAuth == Init /\ [][NextAuth]_vars

\* -------------------------------------------------- settings (SpecSettings)
SettingsBodies ==
  {SettingsBody(t, h, a) :
     t \in {Absent, Given(<<"Paid", "", "Unpaid">>)},
     h \in {Absent, Given(<< <<2025, 12, 31>>, NoDate >>)},
     a \in {Absent, Given(<< [department |-> "Sales", manager_id |-> "m002"] >>)}}

SettingsRequests ==
  {Request("create_leave", "e001", None, LeaveBody(<<2025, 3, 1>>, <<2025, 3, 10>>, 0)),
   Request("create_correction", "e002", None, CorrectionBody(<<2025, 3, 5>>))}
  \cup {Request("approve", "a001", None, ApproveBody(t[1], t[2], "approved", "ok")) :
          t \in {x \in PresentTargets : x[2] \in IdsIn(Visible, x[1])}}
  \cup {Request("settings", u, None, b) :
          u \in {"e001", "m001", "a001"}, b \in SettingsBodies}

NextSettings ==
  \/ \E r \in SettingsRequests : Send(Client1, r)
  \/ Load(Client1)
  \/ api_create_leave(Client1)
  \/ api_create_correction(Client1)
  \/ api_approve(Client1)
  \/ api_settings_update(Client1)

SpecSettings == Init /\ [][NextSettings]_vars

\* ------------------------------------------------- every route (SpecFrame)
\* Each operation with a call that succeeds and calls that end in each of the
\* client errors it can answer.
FrameRequests ==
  {Request("create_leave", "e001", None, LeaveBody(<<2025, 3, 1>>, <<2025, 3, 10>>, 0)),
   Request("create_leave", "e001", None, LeaveBody(<<2025, 3, 10>>, <<2025, 3, 1>>, 0)),
   Request("create_leave", None, None, LeaveBody(<<2025, 3, 1>>, <<2025, 3, 10>>, 0)),
   Request("create_correction", "e002", None, CorrectionBody(<<2025, 3, 5>>)),
   Request("create_correction", "e002", None, CorrectionBody(NoDate)),
   Request("approve", "m001", None, ApproveBody("shift", AbsentId, "approved", "ok")),
   Request("approve", "a001", None, ApproveBody("leave", AbsentId, "approved", "ok")),
   Request("settings", "m001", None, SettingsBody(Given(<<"Paid">>), Absent, Absent)),
   Request("settings", "a001", None, SettingsBody(Given(<<"Paid">>), Absent, Absent)),
   Request("list", "e001", None, ListBody("leave", None)),
   Request("list", "x999", None, ListBody("leave", None)),
   Request("reports", "m001", None, ReportQuery(NoDate, NoDate, "", "")),
   Request("reports", "e001", None, ReportQuery(NoDate, NoDate, "", "")),
   Request("export", "m001", None, ReportQuery(NoDate, NoDate, "", "")),
   Request("export", "m001", "admin", ReportQuery(NoDate, NoDate, "", "")),
   Request("meta", None, None, <<>>),
   Request("login", None, None, LoginBody("e001")),
   Request("login", None, None, LoginBody("x999"))}
  \cup {Request("approve", u, None, ApproveBody(t[1], t[2], "approved", "ok")) :
          u \in {"e001", "m001"},
          t \in {x \in PresentTargets : x[2] \in IdsIn(Visible, x[1])}}

NextFrame ==
  \/ \E r \in FrameRequests : Send(Client1, r)
  \/ Load(Client1)
  \/ api_approve_invalid(Client1)
  \/ api_create_leave(Client1)
  \/ api_create_correction(Client1)
  \/ api_approve(Client1)
  \/ api_list_requests(Client1)
  \/ api_settings_update(Client1)
  \/ api_reports(Client1)
  \/ api_reports_export(Client1)
  \/ api_meta(Client1)
  \/ api_login(Client1)

SpecFrame == Init /\ [][NextFrame]_vars

\* ---------------------------------------------------------------- claims
MutatingOps == {"create_leave", "create_correction", "approve", "settings"}

\* C2: while a mutating operation is between its load and its save, no other
\* operation is between a load and a save, and the persisted document is still
\* the one it loaded: no other load or save falls inside the span.
C2_LoadSaveExclusive ==
  \A c \in Clients :
    (pc[c] = "loaded" /\ req[c].op \in MutatingOps)
      => /\ fileState = "ok"
         /\ data[c] = fileDoc
         /\ \A d \in Clients \ {c} : pc[d] # "loaded"

\* A mutating handler holds its loaded document while another client's
\* mutating request waits for the server.
C2_Witness ==
  \E c \in Clients, d \in Clients :
    /\ c # d
    /\ pc[c] = "loaded" /\ req[c].op = "approve"
    /\ StoredCount(data[c]) > 0
    /\ pc[d] = "queued" /\ req[d].op \in MutatingOps

\* The record an approve request resolves to in the persisted document.
TargetIndex(r) == FirstWithId(Bucket(fileDoc, r.body.category), r.body.id)

TargetRecord(r) == Bucket(fileDoc, r.body.category)[TargetIndex(r)]

\* The request of client c is an approve/reject by a manager on a record owned
\* by one of that manager's direct reports.
TeamApprovalBy(c) ==
  /\ req[c].op = "approve"
  /\ approve_precheck(req[c]) = NoResp
  /\ user_lookup(fileDoc, req[c].uid).role = "manager"
  /\ Falsy(req[c].role)
  /\ TargetIndex(req[c]) # 0
  /\ user_lookup(fileDoc, TargetRecord(req[c]).user_id).manager_id = req[c].uid

\* The persisted record carries the decision of the request of client c.
CarriesDecisionOf(c) ==
  /\ TargetRecord(req[c]).status = req[c].body.action
  /\ TargetRecord(req[c]).approver_comment = req[c].body.comment
  /\ TargetRecord(req[c]).approved_by = user_lookup(fileDoc, req[c].uid).name

ConcurrentTeamApprovals(c, d) ==
  /\ c # d
  /\ pc[c] = "done" /\ pc[d] = "done"
  /\ d \in overlap[c]
  /\ TeamApprovalBy(c) /\ TeamApprovalBy(d)
  /\ req[c].uid # req[d].uid
  /\ <<req[c].body.category, TargetIndex(req[c])>>
       # <<req[d].body.category, TargetIndex(req[d])>>

\* C1: two approve/reject calls of two different managers on two different
\* records of their direct reports, outstanding at the same time, both succeed,
\* and the persisted document carries both decisions.
C1_ConcurrentApprovalsBothPersist ==
  \A c \in Clients, d \in Clients :
    ConcurrentTeamApprovals(c, d)
      => /\ Kind(resp[c]) = "ok"
         /\ Kind(resp[d]) = "ok"
         /\ CarriesDecisionOf(c)
         /\ CarriesDecisionOf(d)

C1_Witness ==
  \E c \in Clients, d \in Clients :
    /\ ConcurrentTeamApprovals(c, d)
    /\ CarriesDecisionOf(c)
    /\ CarriesDecisionOf(d)

Categories == {"leave", "correction"}

Decided(x) == x.status \in {"approved", "rejected"}

\* C3: once the status of a persisted leave request or attendance correction is
\* approved or rejected, no step changes that record's status.
C3_DecidedStatusIsFinal ==
  [][\A cat \in Categories :
       \A i \in 1..Len(Bucket(fileDoc, cat)) :
         Decided(Bucket(fileDoc, cat)[i])
           => /\ i <= Len(Bucket(fileDoc', cat))
              /\ Bucket(fileDoc', cat)[i].status = Bucket(fileDoc, cat)[i].status]_vars

\* The handler of client c, holding the document it loaded, answers its approve
\* request in this step.
ApproveStep(c) ==
  /\ pc[c] = "loaded"
  /\ pc'[c] = "done"
  /\ req[c].op = "approve"

Actor(c) == user_lookup(data[c], req[c].uid)

LoadedTargetIndex(c) == FirstWithId(Bucket(data[c], req[c].body.category), req[c].body.id)

LoadedTargetOwner(c) ==
  user_lookup(data[c], Bucket(data[c], req[c].body.category)[LoadedTargetIndex(c)].user_id)

\* The team rule as the authorization rule states it.
TeamRule(actor, owner) == actor.role = "admin" \/ owner.manager_id = actor.id

\* The records of a category that differ between the persisted document before
\* and after the step.
ChangedRecords(cat) ==
  {i \in 1..Len(Bucket(fileDoc, cat)) :
     i > Len(Bucket(fileDoc', cat)) \/ Bucket(fileDoc', cat)[i] # Bucket(fileDoc, cat)[i]}

\* C4: an approve/reject call changes a record only if the actor is a manager
\* or an admin and the record's owner is in the actor's team; a call by a
\* resolved actor on an existing record whose owner is not in the actor's team
\* is answered Forbidden and leaves the persisted dataset as it was.
C4_ApprovalNeedsRoleAndTeam ==
  [][\A c \in Clients :
       ApproveStep(c)
         => /\ \A cat \in Categories : \A i \in ChangedRecords(cat) :
                 /\ Actor(c).role \in {"manager", "admin"}
                 /\ TeamRule(Actor(c),
                             user_lookup(fileDoc, Bucket(fileDoc, cat)[i].user_id))
            /\ (/\ Actor(c) # NoUser
                /\ LoadedTargetIndex(c) # 0
                /\ ~TeamRule(Actor(c), LoadedTargetOwner(c)))
                 => /\ Kind(resp'[c]) = "Forbidden"
                    /\ fileDoc' = fileDoc
                    /\ fileState' = fileState]_vars

\* A manager was refused on a pending record of another manager's report.
C4_Witness ==
  \E c \in Clients :
    /\ pc[c] = "done"
    /\ req[c].op = "approve"
    /\ req[c].uid = "m001"
    /\ TargetIndex(req[c]) # 0
    /\ TargetRecord(req[c]).user_id = "e002"
    /\ TargetRecord(req[c]).status = "pending"
    /\ resp[c] = Response(403, "Cannot approve outside your team", <<>>)

\* The caller an answered list request resolved to.
Lister(c) == user_lookup(fileDoc, req[c].uid)

\* Client c, a resolved caller, has the answer of a list handler that loaded
\* the store.
Listed(c) ==
  /\ pc[c] = "done"
  /\ fileState = "ok"
  /\ req[c].op = "list"
  /\ Lister(c) # NoUser
  /\ Falsy(req[c].role) \/ req[c].role = Lister(c).role

\* s is the subsequence of items at exactly the positions in keep.
IsSelection(s, items, keep) ==
  /\ Len(s) = Cardinality(keep)
  /\ \A i \in keep :
       s[Cardinality({j \in keep : j <= i})] = items[i]

OwnPositions(c) ==
  {i \in 1..Len(Bucket(fileDoc, req[c].body.category)) :
     Bucket(fileDoc, req[c].body.category)[i].user_id = req[c].uid}

ReportPositions(c) ==
  {i \in 1..Len(Bucket(fileDoc, req[c].body.category)) :
     user_lookup(fileDoc, Bucket(fileDoc, req[c].body.category)[i].user_id).manager_id
       = req[c].uid}

\* C5: whatever the scope, the list an employee gets is exactly the records of
\* the bucket whose user_id is the employee's own id.
C5_EmployeeListsOwnOnly ==
  \A c \in Clients :
    (Listed(c) /\ Lister(c).role = "employee")
      => /\ Kind(resp[c]) = "ok"
         /\ IsSelection(resp[c].payload, Bucket(fileDoc, req[c].body.category),
                        OwnPositions(c))

\* An employee asked for the team scope on a bucket that holds a record of their
\* own and a record of somebody else.
C5_Witness ==
  \E c \in Clients :
    /\ Listed(c) /\ Lister(c).role = "employee"
    /\ req[c].body.scope = "team"
    /\ Len(resp[c].payload) = 1
    /\ Len(Bucket(fileDoc, req[c].body.category)) = 2

\* C6: with scope=team a manager gets exactly the records that are their own or
\* owned by a user whose manager_id is the manager's id; with any other scope,
\* only their own.
C6_ManagerTeamScope ==
  \A c \in Clients :
    (Listed(c) /\ Lister(c).role = "manager")
      => /\ Kind(resp[c]) = "ok"
         /\ IsSelection(resp[c].payload, Bucket(fileDoc, req[c].body.category),
                        IF req[c].body.scope = "team"
                          THEN OwnPositions(c) \cup ReportPositions(c)
                          ELSE OwnPositions(c))

\* A manager asked for the team scope on a bucket holding a record of a direct
\* report and a record of another manager's report.
C6_Witness ==
  \E c \in Clients :
    /\ Listed(c) /\ req[c].uid = "m001"
    /\ req[c].body.scope = "team"
    /\ Len(resp[c].payload) = 1
    /\ resp[c].payload[1].user_id = "e001"
    /\ \E i \in 1..Len(Bucket(fileDoc, req[c].body.category)) :
         Bucket(fileDoc, req[c].body.category)[i].user_id = "e002"

\* The calendar, month by month.
MonthLengths(y) ==
  <<31, IF (y % 4 = 0 /\ y % 100 # 0) \/ y % 400 = 0 THEN 29 ELSE 28,
    31, 30, 31, 30, 31, 31, 30, 31, 30, 31>>

IsCalendarDate(v) ==
  /\ Len(v) = 3
  /\ v[1] \in 1..9999
  /\ v[2] \in 1..12
  /\ v[3] \in 1..MonthLengths(v[1])[v[2]]

FirstOfNextMonth(v) ==
  IF v[2] < 12 THEN <<v[1], v[2] + 1, 1>> ELSE <<v[1] + 1, 1, 1>>

DateBefore(a, b) ==
  \/ a[1] < b[1]
  \/ a[1] = b[1] /\ a[2] < b[2]
  \/ a[1] = b[1] /\ a[2] = b[2] /\ a[3] < b[3]

\* The number of calendar days from a to b, both counted, month by month.
RECURSIVE DaysCounted(_, _)
DaysCounted(a, b) ==
  IF a[1] = b[1] /\ a[2] = b[2] THEN b[3] - a[3] + 1
  ELSE (MonthLengths(a[1])[a[2]] - a[3] + 1) + DaysCounted(FirstOfNextMonth(a), b)

\* The handler of client c answers a create-leave request of a resolved user
\* that carries every required field, with dates that parse.
CreateLeaveStep(c) ==
  /\ pc[c] = "loaded"
  /\ pc'[c] = "done"
  /\ req[c].op = "create_leave"
  /\ Actor(c) # NoUser
  /\ ~Falsy(req[c].body.leave_type)
  /\ ~Falsy(req[c].body.reason)
  /\ IsCalendarDate(req[c].body.start_date)
  /\ IsCalendarDate(req[c].body.end_date)

\* C7: create leave with every required field and parseable dates stores, when
\* the end is not before the start, one new record whose days is the number of
\* calendar days from start to end, both counted, whatever days the payload
\* carries; when the end is before the start the call is rejected and the
\* persisted dataset stays as it was.
C7_DaysIsInclusiveSpan ==
  [][\A c \in Clients :
       CreateLeaveStep(c)
         => IF DateBefore(req[c].body.end_date, req[c].body.start_date)
              THEN /\ Kind(resp'[c]) = "ValidationError"
                   /\ fileDoc' = fileDoc
              ELSE /\ Kind(resp'[c]) = "ok"
                   /\ Len(fileDoc'.leave_requests) = Len(fileDoc.leave_requests) + 1
                   /\ SubSeq(fileDoc'.leave_requests, 1, Len(fileDoc.leave_requests))
                        = fileDoc.leave_requests
                   /\ LET new == fileDoc'.leave_requests[Len(fileDoc'.leave_requests)] IN
                        /\ new = resp'[c].payload
                        /\ new.start_date = req[c].body.start_date
                        /\ new.end_date = req[c].body.end_date
                        /\ new.days = DaysCounted(req[c].body.start_date,
                                                  req[c].body.end_date)]_vars

\* A leave over a leap day was stored with 3 days although the payload said 99.
C7_Witness ==
  \E c \in Clients :
    /\ pc[c] = "done"
    /\ req[c].op = "create_leave"
    /\ req[c].body.days = 99
    /\ req[c].body.start_date = <<2024, 2, 28>>
    /\ req[c].body.end_date = <<2024, 3, 1>>
    /\ Kind(resp[c]) = "ok"
    /\ resp[c].payload.days = 3
    /\ \E i \in 1..Len(fileDoc.leave_requests) : fileDoc.leave_requests[i] = resp[c].payload

\* The window rules on calendar dates, by comparing year, month and day.
NotBefore(a, b) == ~DateBefore(a, b)

PassesOwnerFilters(q, x) ==
  /\ GivenText(q.department) => x.department = q.department
  /\ GivenText(q.employee) => x.user_id = q.employee

\* Containment: the record starts no earlier than a given start and ends no
\* later than a given end.
Contained(q, x, category) ==
  /\ GivenDate(q.start) => NotBefore(ItemStart(x, category), q.start)
  /\ GivenDate(q.end) => NotBefore(q.end, ItemEnd(x, category))

\* Overlap: the record ends no earlier than a given start and starts no later
\* than a given end.
Overlapping(q, x, category) ==
  /\ GivenDate(q.start) => NotBefore(ItemEnd(x, category), q.start)
  /\ GivenDate(q.end) => NotBefore(q.end, ItemStart(x, category))

\* The positions of the persisted records the summary report is to count.
CountedPositions(q, category) ==
  {i \in 1..Len(Bucket(fileDoc, category)) :
     /\ Bucket(fileDoc, category)[i].status = "approved"
     /\ PassesOwnerFilters(q, Bucket(fileDoc, category)[i])
     /\ Contained(q, Bucket(fileDoc, category)[i], category)}

\* The positions of the persisted records the export is to list.
ExportedPositions(q, category) ==
  {i \in 1..Len(Bucket(fileDoc, category)) :
     /\ PassesOwnerFilters(q, Bucket(fileDoc, category)[i])
     /\ Overlapping(q, Bucket(fileDoc, category)[i], category)}

\* Client c got a summary report.
SummaryAnswered(c) ==
  /\ pc[c] = "done"
  /\ req[c].op = "reports"
  /\ Kind(resp[c]) = "ok"

Totals(c) == resp[c].payload.leave_totals

\* C8: the summary report counts exactly the approved records that pass the
\* department/employee filters and the containment rule: correction_count is
\* their number among the corrections, and leave_totals has one row for each
\* user owning such a leave request and none for anybody else; a pending,
\* rejected or straddling record contributes to neither.
C8_SummaryCountsApprovedContained ==
  \A c \in Clients :
    SummaryAnswered(c)
      => /\ resp[c].payload.correction_count
              = Cardinality(CountedPositions(req[c].body, "correction"))
         /\ {Totals(c)[k].employee_id : k \in 1..Len(Totals(c))}
              = {fileDoc.leave_requests[i].user_id :
                   i \in CountedPositions(req[c].body, "leave")}
         /\ \A k \in 1..Len(Totals(c)) : \A j \in 1..Len(Totals(c)) :
              Totals(c)[k].employee_id = Totals(c)[j].employee_id => k = j

\* With the window 2025-03-05..2025-03-08 the report counts the approved leave
\* of e001 inside it and leaves out the approved leave of e002 that straddles it.
C8_Witness ==
  \E c \in Clients :
    /\ SummaryAnswered(c)
    /\ req[c].body = ReportQuery(<<2025, 3, 5>>, <<2025, 3, 8>>, "", "")
    /\ Len(Totals(c)) = 1
    /\ Totals(c)[1].employee_id = "e001"
    /\ \E i \in 1..Len(fileDoc.leave_requests) :
         /\ fileDoc.leave_requests[i].user_id = "e002"
         /\ fileDoc.leave_requests[i].status = "approved"
         /\ fileDoc.leave_requests[i].start_date = <<2025, 3, 1>>
         /\ fileDoc.leave_requests[i].end_date = <<2025, 3, 10>>

\* Client c asked for the export as a resolved manager or admin, with window
\* dates that are dates.
ExportAsked(c) ==
  /\ pc[c] = "done"
  /\ req[c].op = "export"
  /\ Falsy(req[c].role)
  /\ user_lookup(fileDoc, req[c].uid).role \in {"manager", "admin"}
  /\ GivenDate(req[c].body.start) => IsCalendarDate(req[c].body.start)
  /\ GivenDate(req[c].body.end) => IsCalendarDate(req[c].body.end)

Rank(S, i) == Cardinality({j \in S : j <= i})

\* The rows are one per listed leave request, then one per listed correction.
ExportRowsExact(c) ==
  LET q == req[c].body
      rows == resp[c].payload
      L == ExportedPositions(q, "leave")
      A == ExportedPositions(q, "correction")
  IN /\ Len(rows) = Cardinality(L) + Cardinality(A)
     /\ \A i \in L :
          LET x == fileDoc.leave_requests[i]
              row == rows[Rank(L, i)]
          IN /\ row.category = "leave"
             /\ row.employee_id = x.user_id
             /\ row.status = x.status
             /\ row.start_date = x.start_date
             /\ row.end_date = x.end_date
             /\ row.days = x.days
             /\ row.created_at = x.created_at
     /\ \A i \in A :
          LET x == fileDoc.attendance_corrections[i]
              row == rows[Cardinality(L) + Rank(A, i)]
          IN /\ row.category = "attendance_correction"
             /\ row.employee_id = x.user_id
             /\ row.status = x.status
             /\ row.start_date = x.date
             /\ row.end_date = x.date
             /\ row.created_at = x.created_at

\* C9: the export emits exactly one row for every leave request and attendance
\* correction, of any status, that passes the department/employee filters and
\* the overlap rule.
C9_ExportListsEveryOverlapping ==
  \A c \in Clients :
    ExportAsked(c) => (Kind(resp[c]) = "ok" /\ ExportRowsExact(c))

\* C10: in every summary report each row's leave_days_taken is the sum of days
\* over that user's counted leave requests, and leave_days_remaining is the
\* allowance less the days taken, or 0 when more was taken than allowed.
RECURSIVE DaysOver(_)
DaysOver(S) ==
  IF S = {} THEN 0
  ELSE LET i == CHOOSE j \in S : TRUE
       IN fileDoc.leave_requests[i].days + DaysOver(S \ {i})

C10_RemainingNeverNegative ==
  \A c \in Clients :
    SummaryAnswered(c)
      => \A k \in 1..Len(Totals(c)) :
           LET row == Totals(c)[k]
               allowance == user_lookup(fileDoc, row.employee_id).annual_leave_allowance
               taken == DaysOver({i \in CountedPositions(req[c].body, "leave") :
                                    fileDoc.leave_requests[i].user_id = row.employee_id})
           IN /\ row.leave_days_taken = taken
              /\ row.leave_days_remaining >= 0
              /\ row.leave_days_remaining
                   = IF taken > allowance THEN 0 ELSE allowance - taken

\* e002, allowed 18 days, has 20 approved days: the row shows 20 taken, 0 left.
C10_Witness ==
  \E c \in Clients :
    /\ SummaryAnswered(c)
    /\ \E k \in 1..Len(Totals(c)) :
         /\ Totals(c)[k].employee_id = "e002"
         /\ Totals(c)[k].leave_days_taken = 20
         /\ Totals(c)[k].leave_days_remaining = 0

\* Client c leaves the listen queue by performing its first load.
LoadStep(c) ==
  /\ pc[c] = "queued"
  /\ pc'[c] # "queued"
  /\ req[c].op = "approve" => approve_precheck(req[c]) = NoResp

\* C11: a load that finds the store missing or unparseable hands the seed to
\* the handler and leaves the seed persisted, so that a further load with no
\* save in between returns the seed again without a reset; the load does not
\* fail outward.
C11_RecoveryReturnsSeed ==
  [][\A c \in Clients :
       LoadStep(c) /\ fileState # "ok"
         => /\ pc'[c] = "loaded"
            /\ data'[c] = SEED
            /\ fileState' = "ok"
            /\ fileDoc' = SEED
            /\ load_data(fileState', fileDoc')
                 = [data |-> SEED, state |-> "ok", doc |-> SEED, raises |-> FALSE]]_vars

\* Client c's handler, holding the loaded document, runs to its response.
HandlerStep(c) == pc[c] = "loaded" /\ pc'[c] = "done"

\* What the identity headers of a request amount to against the users set.
IdentityOutcome(r) ==
  LET known == {i \in 1..Len(fileDoc.users) : fileDoc.users[i].id = r.uid} IN
  IF r.uid \in {None, ""} THEN "Unauthenticated"
  ELSE IF known = {} THEN "Unauthorized"
  ELSE IF r.role \notin {None, ""}
          /\ \E i \in known : fileDoc.users[i].role # r.role THEN "Unauthorized"
  ELSE "resolved"

\* C12: every operation that resolves the caller answers Unauthenticated to a
\* missing user id, Unauthorized to an unknown id and to an asserted role that
\* is not the user's, and in these cases leaves the persisted dataset as it
\* was; otherwise the user with that id is resolved: the answer is neither of
\* the two, and a record it creates is owned by that id.
C12_IdentityResolution ==
  [][\A c \in Clients :
       HandlerStep(c)
         => IF IdentityOutcome(req[c]) # "resolved"
              THEN /\ Kind(resp'[c]) = IdentityOutcome(req[c])
                   /\ fileDoc' = fileDoc
                   /\ fileState' = fileState
              ELSE /\ Kind(resp'[c]) \notin {"Unauthenticated", "Unauthorized"}
                   /\ (Kind(resp'[c]) = "ok"
                          /\ req[c].op \in {"create_leave", "create_correction"})
                        => resp'[c].payload.user_id = req[c].uid]_vars

\* An export under a role that is not the user's has been answered
\* Unauthorized, with a record created by the resolved e001 in the store.
C12_Witness ==
  \E c \in Clients :
    /\ pc[c] = "done"
    /\ req[c].op = "export"
    /\ req[c].uid = "a001" /\ req[c].role = "employee"
    /\ Kind(resp[c]) = "Unauthorized"
    /\ Len(fileDoc.leave_requests) = 1
    /\ fileDoc.leave_requests[1].user_id = "e001"

\* Client c's create has just succeeded.
CreateStep(c) ==
  /\ HandlerStep(c)
  /\ req[c].op \in {"create_leave", "create_correction"}
  /\ Kind(resp'[c]) = "ok"

CreatedBucket(c) ==
  IF req[c].op = "create_leave" THEN fileDoc'.leave_requests
  ELSE fileDoc'.attendance_corrections

\* C15: a record made by create leave or create correction carries the id,
\* name and department of the caller, an existing user, and starts pending
\* with empty approver_comment and approved_by, whatever owner or decision
\* fields the payload carries.
C15_OwnerStampedFromIdentity ==
  [][\A c \in Clients :
       CreateStep(c)
         => LET item == resp'[c].payload
                stored == CreatedBucket(c)[Len(CreatedBucket(c))]
            IN /\ stored = item
               /\ item.user_id = req[c].uid
               /\ \E i \in 1..Len(fileDoc.users) :
                    /\ fileDoc.users[i].id = item.user_id
                    /\ fileDoc.users[i].name = item.employee_name
                    /\ fileDoc.users[i].department = item.department
               /\ item.status = "pending"
               /\ item.approver_comment = ""
               /\ item.approved_by = ""]_vars

\* e001 sent a leave request whose payload names a001 as the owner and an
\* approved status; the record created is e001's.
C15_Witness ==
  \E c \in Clients :
    /\ pc[c] = "done"
    /\ req[c].op = "create_leave"
    /\ req[c].uid = "e001"
    /\ req[c].body.user_id = "a001"
    /\ req[c].body.status = "approved"
    /\ Kind(resp[c]) = "ok"
    /\ resp[c].payload.user_id = "e001"
    /\ resp[c].payload.status = "pending"

\* C13: create leave by a resolved caller with every required field present
\* and a start_date or end_date that is no calendar date answers
\* ValidationError and adds no record.
C13_BadDateIsValidationError ==
  [][\A c \in Clients :
       /\ HandlerStep(c)
       /\ req[c].op = "create_leave"
       /\ IdentityOutcome(req[c]) = "resolved"
       /\ req[c].body.start_date # NoDate /\ req[c].body.end_date # NoDate
       /\ ~Falsy(req[c].body.leave_type) /\ ~Falsy(req[c].body.reason)
       /\ ~IsCalendarDate(req[c].body.start_date)
            \/ ~IsCalendarDate(req[c].body.end_date)
       => /\ Kind(resp'[c]) = "ValidationError"
          /\ fileDoc' = fileDoc]_vars

\* Record b is record a up to status, approver_comment and approved_by.
SameButDecision(a, b) ==
  [b EXCEPT !.status = a.status, !.approver_comment = a.approver_comment,
            !.approved_by = a.approved_by] = a

\* This step completes a successful approve/reject aimed at record x of cat.
DecidedBySomeone(cat, x) ==
  \E c \in Clients :
    /\ HandlerStep(c)
    /\ req[c].op = "approve"
    /\ Kind(resp'[c]) = "ok"
    /\ req[c].body.category = cat
    /\ req[c].body.id = x.id

\* C14: whatever the clients do and however their requests overlap, every
\* step keeps every persisted record in its bucket with all fields other than
\* status, approver_comment and approved_by as they were, changes those three
\* only by a successful approve/reject on that record, and a successful create
\* leaves the record it returns in its bucket.
C14_RecordsKeptAndFrozen ==
  [][/\ \A cat \in Categories :
          LET old == Bucket(fileDoc, cat)
              new == Bucket(fileDoc', cat)
          IN /\ Len(new) >= Len(old)
             /\ \A i \in 1..Len(old) :
                  /\ SameButDecision(old[i], new[i])
                  /\ new[i] # old[i] => DecidedBySomeone(cat, old[i])
     /\ \A c \in Clients :
          CreateStep(c) => CreatedBucket(c)[Len(CreatedBucket(c))] = resp'[c].payload
    ]_vars

\* A settings update has been saved over a store holding an approved leave
\* request and a correction, while the other client was waiting.
C14_Witness ==
  \E c \in Clients :
    /\ pc[c] = "done"
    /\ req[c].op = "settings"
    /\ Kind(resp[c]) = "ok"
    /\ overlap[c] # {}
    /\ Len(fileDoc.leave_requests) >= 1
    /\ fileDoc.leave_requests[1].status = "approved"
    /\ Len(fileDoc.attendance_corrections) >= 1

\* Client c's approve call is answered from its body alone.
ApproveAnsweredStep(c) ==
  /\ req[c].op = "approve"
  /\ pc[c] \in {"queued", "loaded"}
  /\ pc'[c] = "done"

ValidApproveBody(b) ==
  b.category \in {"leave", "correction"} /\ b.action \in {"approved", "rejected"}

\* C16: an approve/reject call whose category is not leave or correction, or
\* whose action is not approved or rejected, is answered ValidationError
\* whoever calls and whatever the id, with no load (a missing or broken store
\* stays as it is) and no save; a call of a resolved manager or admin with a
\* valid category and action and an id that the category's bucket does not
\* hold is answered NotFound and changes nothing.
C16_InvalidApproveRefusedEarly ==
  [][\A c \in Clients :
       ApproveAnsweredStep(c)
         => /\ ~ValidApproveBody(req[c].body)
                => /\ Kind(resp'[c]) = "ValidationError"
                   /\ pc[c] = "queued"
                   /\ UNCHANGED <<fileState, fileDoc, data>>
            /\ (/\ ValidApproveBody(req[c].body)
                /\ pc[c] = "loaded"
                /\ IdentityOutcome(req[c]) = "resolved"
                /\ req[c].uid \in {"m001", "m002", "a001"}
                /\ req[c].body.id \notin IdsIn(fileDoc, req[c].body.category))
                => /\ Kind(resp'[c]) = "NotFound"
                   /\ UNCHANGED <<fileState, fileDoc>>]_vars

C18_IdsUnique ==
  \A cat \in Categories :
    \A i \in 1..Len(Bucket(fileDoc, cat)) : \A j \in 1..Len(Bucket(fileDoc, cat)) :
      Bucket(fileDoc, cat)[i].id = Bucket(fileDoc, cat)[j].id => i = j

\* The entries of a sequence.
Entries(q) == {q[i] : i \in 1..Len(q)}

\* Setting `new` is `old` when the request leaves it out, and otherwise holds
\* the non-empty entries the request supplies, in their order.
Replaced(old, new, supplied, empty) ==
  IF ~supplied.present THEN new = old
  ELSE /\ Entries(new) = Entries(supplied.value) \ {empty}
       /\ Len(new) = Cardinality({i \in 1..Len(supplied.value) : supplied.value[i] # empty})

\* C19: update settings by a caller who is not an admin is answered Forbidden
\* and leaves the dataset as it is; by an admin it replaces those of
\* leave_types, holidays and approval_routes that the request supplies and
\* leaves the other settings, the users and every request record as they are
\* in the store.
C19_SettingsAdminOnlyAndFramed ==
  [][\A c \in Clients :
       HandlerStep(c) /\ req[c].op = "settings" /\ IdentityOutcome(req[c]) = "resolved"
         => IF \E i \in 1..Len(fileDoc.users) :
                 fileDoc.users[i].id = req[c].uid /\ fileDoc.users[i].role # "admin"
              THEN /\ Kind(resp'[c]) = "Forbidden"
                   /\ UNCHANGED <<fileDoc, fileState>>
              ELSE /\ Kind(resp'[c]) = "ok"
                   /\ fileDoc'.users = fileDoc.users
                   /\ fileDoc'.leave_requests = fileDoc.leave_requests
                   /\ fileDoc'.attendance_corrections = fileDoc.attendance_corrections
                   /\ Replaced(fileDoc.leave_types, fileDoc'.leave_types,
                               req[c].body.leave_types, "")
                   /\ Replaced(fileDoc.work_calendar.holidays,
                               fileDoc'.work_calendar.holidays,
                               req[c].body.holidays, NoDate)
                   /\ IF req[c].body.approval_routes.present
                        THEN fileDoc'.approval_routes = req[c].body.approval_routes.value
                        ELSE fileDoc'.approval_routes = fileDoc.approval_routes]_vars

\* The admin has replaced the holidays alone over a store that holds an
\* approved leave request: leave types and routes are those of the seed.
C19_Witness ==
  \E c \in Clients :
    /\ pc[c] = "done"
    /\ req[c].op = "settings"
    /\ req[c].uid = "a001"
    /\ Kind(resp[c]) = "ok"
    /\ req[c].body.holidays.present
    /\ ~req[c].body.leave_types.present
    /\ ~req[c].body.approval_routes.present
    /\ fileDoc.work_calendar.holidays = << <<2025, 12, 31>> >>
    /\ fileDoc.leave_types = SEED.leave_types
    /\ fileDoc.approval_routes = SEED.approval_routes
    /\ Len(fileDoc.leave_requests) >= 1
    /\ fileDoc.leave_requests[1].status = "approved"

\* Client c, a resolved caller, has its answer to a summary or export query
\* from a handler that loaded the store.
ReportDone(c) ==
  /\ pc[c] = "done"
  /\ fileState = "ok"
  /\ req[c].op \in {"reports", "export"}
  /\ IdentityOutcome(req[c]) = "resolved"

\* What the service answers to u sending the query of r against the store.
AnswerTo(u, r) ==
  IF r.op = "reports" THEN reports(fileDoc, [r EXCEPT !.uid = u]).resp
  ELSE reports_export(fileDoc, [r EXCEPT !.uid = u]).resp

RoleOf(uid) ==
  LET i == CHOOSE i \in 1..Len(fileDoc.users) : fileDoc.users[i].id = uid
  IN fileDoc.users[i].role

\* C20: summary report and export answer Forbidden to an employee; to a
\* manager or admin they answer what every other manager or admin gets for
\* the same filters against the same dataset, and a manager's totals are not
\* cut down to the own team.
C20_ReportsIgnoreCaller ==
  \A c \in Clients :
    ReportDone(c)
      => IF RoleOf(req[c].uid) = "employee"
           THEN Kind(resp[c]) = "Forbidden"
           ELSE /\ Kind(resp[c]) # "Forbidden"
                /\ \A i \in 1..Len(fileDoc.users) :
                     fileDoc.users[i].role \in {"manager", "admin"}
                       => AnswerTo(fileDoc.users[i].id, req[c]) = resp[c]
                /\ (Kind(resp[c]) = "ok" /\ req[c].op = "reports")
                     => {resp[c].payload.leave_totals[k].employee_id :
                           k \in 1..Len(resp[c].payload.leave_totals)}
                          = {fileDoc.leave_requests[i].user_id :
                               i \in CountedPositions(req[c].body, "leave")}

\* Manager m001 has a summary that lists e002, who is not in m001's team.
C20_Witness ==
  \E c \in Clients :
    /\ ReportDone(c)
    /\ req[c].op = "reports"
    /\ req[c].uid = "m001"
    /\ Kind(resp[c]) = "ok"
    /\ \E k \in 1..Len(resp[c].payload.leave_totals) :
         resp[c].payload.leave_totals[k].employee_id = "e002"

\* The record client c's approve call resolves to in the loaded document.
LoadedTarget(c) == Bucket(data[c], req[c].body.category)[LoadedTargetIndex(c)]

\* C21: an approve/reject call by a manager or admin who passes the team rule,
\* on a record that is already approved or rejected, is not blocked: it is
\* answered ok, and the persisted record carries the status and comment of
\* this call and the name of this actor as approved_by.
C21_DecidedRecordIsOverwritten ==
  [][\A c \in Clients :
       (/\ ApproveStep(c)
        /\ IdentityOutcome(req[c]) = "resolved"
        /\ Actor(c).role \in {"manager", "admin"}
        /\ LoadedTargetIndex(c) # 0
        /\ Decided(LoadedTarget(c))
        /\ TeamRule(Actor(c), LoadedTargetOwner(c)))
         => LET new == Bucket(fileDoc', req[c].body.category)[LoadedTargetIndex(c)]
            IN /\ Kind(resp'[c]) = "ok"
               /\ new = [LoadedTarget(c) EXCEPT !.status = req[c].body.action,
                                                !.approver_comment = req[c].body.comment,
                                                !.approved_by = Actor(c).name]
               /\ resp'[c].payload = new]_vars

\* The admin has rejected a leave request that manager m001 had approved: the
\* record now carries the admin's decision, comment and name.
C21_Witness ==
  \E c \in Clients :
    /\ pc[c] = "done"
    /\ req[c].op = "approve"
    /\ req[c].uid = "a001"
    /\ req[c].body.action = "rejected"
    /\ prior[c] = "approved"
    /\ Kind(resp[c]) = "ok"
    /\ TargetIndex(req[c]) # 0
    /\ TargetRecord(req[c]).status = "rejected"
    /\ TargetRecord(req[c]).approver_comment = "a001"
    /\ TargetRecord(req[c]).approved_by = "Admin Ito"

ClientErrors ==
  {"Unauthenticated", "Unauthorized", "Forbidden", "ValidationError", "NotFound"}

ReadOnlyOps == {"meta", "login", "list", "reports", "export"}

\* Client c's request gets its answer in this step.
AnsweredStep(c) == pc[c] \in {"queued", "loaded"} /\ pc'[c] = "done"

\* What the handler of client c returns for the document it holds.
HandlerResult(c) ==
  CASE req[c].op = "create_leave" -> create_leave(data[c], req[c], clock)
    [] req[c].op = "create_correction" -> create_correction(data[c], req[c], clock)
    [] req[c].op = "approve" -> approve(data[c], req[c])
    [] req[c].op = "settings" -> settings_update(data[c], req[c])
    [] req[c].op = "list" -> list_requests(data[c], req[c])
    [] req[c].op = "reports" -> reports(data[c], req[c])
    [] req[c].op = "export" -> reports_export(data[c], req[c])
    [] req[c].op = "login" -> login(data[c], req[c])
    [] OTHER -> meta(data[c], req[c])

\* C22: with a persisted store that exists and parses, an operation that
\* ends in Unauthenticated, Unauthorized, Forbidden, ValidationError or
\* NotFound, and every get metadata, login, list, summary report and export,
\* makes no save and leaves the persisted dataset exactly as it was; the
\* store is written only by a successful create, approve/reject or update
\* settings.
C22_OnlySuccessfulMutationsWrite ==
  [][fileState = "ok"
       => /\ \A c \in Clients :
               (/\ AnsweredStep(c)
                /\ Kind(resp'[c]) \in ClientErrors \/ req[c].op \in ReadOnlyOps)
                 => /\ UNCHANGED <<fileState, fileDoc>>
                    /\ pc[c] = "loaded" => ~HandlerResult(c).saved
          /\ (fileDoc' # fileDoc \/ fileState' # fileState)
               => \E c \in Clients :
                    /\ HandlerStep(c)
                    /\ req[c].op \in MutatingOps
                    /\ Kind(resp'[c]) = "ok"]_vars

\* A manager's approval of a record outside the team has been answered
\* Forbidden over a store that holds two records and changed leave types.
C22_Witness ==
  \E c \in Clients :
    /\ pc[c] = "done"
    /\ fileState = "ok"
    /\ req[c].op = "approve"
    /\ Kind(resp[c]) = "Forbidden"
    /\ prior[c] = "pending"
    /\ StoredCount(fileDoc) = 2
    /\ fileDoc.leave_types = <<"Paid">>

\* The scope values a list call is made with.
ListScopes == {None, "mine", "team", "all"}

\* What the actor of client c's approve call gets when listing the category of
\* the call with the given scope, over the document the handler holds.
OwnListing(c, scope) ==
  list_requests(data[c], Request("list", req[c].uid, req[c].role,
                                 ListBody(req[c].body.category, scope))).resp

\* C23: a manager's approve/reject call on a record the manager owns is
\* answered Forbidden and leaves the persisted dataset as it was, although
\* every listing of the manager shows that record; a record owned by a
\* manager is changed by an approve/reject call only when the actor is an
\* admin or the manager whose id is the owner's manager_id.
C23_ManagerCannotDecideOwnRecord ==
  [][\A c \in Clients :
       ApproveStep(c)
         => /\ (/\ IdentityOutcome(req[c]) = "resolved"
                /\ Actor(c).role = "manager"
                /\ LoadedTargetIndex(c) # 0
                /\ LoadedTarget(c).user_id = Actor(c).id)
                 => /\ Kind(resp'[c]) = "Forbidden"
                    /\ UNCHANGED <<fileState, fileDoc>>
                    /\ \A scope \in ListScopes :
                         /\ Kind(OwnListing(c, scope)) = "ok"
                         /\ \E k \in 1..Len(OwnListing(c, scope).payload) :
                              OwnListing(c, scope).payload[k] = LoadedTarget(c)
            /\ \A cat \in Categories : \A i \in ChangedRecords(cat) :
                 user_lookup(fileDoc, Bucket(fileDoc, cat)[i].user_id).role = "manager"
                   => \/ Actor(c).role = "admin"
                      \/ /\ Actor(c).role = "manager"
                         /\ user_lookup(fileDoc, Bucket(fileDoc, cat)[i].user_id).manager_id
                              = Actor(c).id]_vars

\* Manager m001 was refused on the pending attendance correction m001 filed,
\* which is still pending in the store.
C23_Witness ==
  \E c \in Clients :
    /\ pc[c] = "done"
    /\ fileState = "ok"
    /\ req[c].op = "approve"
    /\ req[c].uid = "m001"
    /\ req[c].body.category = "correction"
    /\ prior[c] = "pending"
    /\ TargetIndex(req[c]) # 0
    /\ TargetRecord(req[c]).user_id = "m001"
    /\ TargetRecord(req[c]).status = "pending"
    /\ resp[c] = Response(403, "Cannot approve outside your team", <<>>)

====
